---------------------------- MODULE Spec2Model ----------------------------
(***************************************************************************)
(* A model of mapradar: the command-line dispatcher of src/main.rs (one    *)
(* process invocation from argument parsing to exit) and the constructors  *)
(* and public fields of the domain model of src/models.rs.                 *)
(*                                                                         *)
(* Strings the program only passes around (addresses, error texts) are     *)
(* TLA+ strings.  The --type string is split, trimmed and matched by the   *)
(* program, so it is a sequence of one-character strings.                  *)
(* Option<T> is a sequence of length 0 (None) or 1 (Some(v)).              *)
(* f64 values are carried unchanged by the program and never computed      *)
(* with; they are integers here (515 for 51.5, -1 for -0.1).               *)
(***************************************************************************)
EXTENDS Integers, Sequences, FiniteSets, TLC

VARIABLES
    argv,           \* the command line as typed: which flags are present
    command,        \* Option<Commands>: cli.command once Cli::parse has run
    pc,             \* position of main: "parse", "dispatch", "await", "resume", "exited"
    service_types,  \* the Vec<ServiceType> collected in the Nearby arm
    query,          \* Option<SearchQuery> resolved in the Nearby arm
    calls,          \* the API client calls issued so far, in order
    response,       \* Option<Result>: what the awaited client call returned
    stdout,         \* lines written to standard output
    stderr,         \* lines written to standard error
    exit_code,      \* Option<int>: the process's exit status once it has exited
    intel_args,     \* arguments of the last LocationIntelligence::new call
    intel,          \* Option<LocationIntelligence>: the value under construction/assignment
    rpc_args,       \* arguments of the last JsonRpcResponse::new call
    rpc             \* Option<JsonRpcResponse>

cliVars == <<argv, command, pc, service_types, query, calls, response,
             stdout, stderr, exit_code>>
intelVars == <<intel_args, intel>>
rpcVars == <<rpc_args, rpc>>
vars == <<argv, command, pc, service_types, query, calls, response,
          stdout, stderr, exit_code, intel_args, intel, rpc_args, rpc>>

---------------------------------------------------------------------------
\* Option<T>

None == <<>>
Some(v) == <<v>>
IsSome(o) == o /= <<>>
Unwrap(o) == o[1]

---------------------------------------------------------------------------
\* Bounds of the model

\* most comma-separated tokens in a generated --type string
MaxTokens == 3
\* most entries in a nearby_services vector
MaxServices == 2

---------------------------------------------------------------------------
\* Character strings

Str_bank == <<"b", "a", "n", "k">>
Str_hospital == <<"h", "o", "s", "p", "i", "t", "a", "l">>
Str_school == <<"s", "c", "h", "o", "o", "l">>
Str_restaurant == <<"r", "e", "s", "t", "a", "u", "r", "a", "n", "t">>
Str_bus_stop == <<"b", "u", "s", "-", "s", "t", "o", "p">>
Str_market == <<"m", "a", "r", "k", "e", "t">>
Str_mall == <<"m", "a", "l", "l">>
Str_fuel_station == <<"f", "u", "e", "l", "-", "s", "t", "a", "t", "i", "o", "n">>
Str_train_station == <<"t", "r", "a", "i", "n", "-", "s", "t", "a", "t", "i", "o", "n">>
Str_taxi_stand == <<"t", "a", "x", "i", "-", "s", "t", "a", "n", "d">>
Str_landmark == <<"l", "a", "n", "d", "m", "a", "r", "k">>
Str_Bank == <<"B", "a", "n", "k">>
Str_HOSPITAL == <<"H", "O", "S", "P", "I", "T", "A", "L">>
Str_padded_bank == <<" ", "b", "a", "n", "k", " ">>
Str_tab_mall == <<"\t", "m", "a", "l", "l">>
Str_bnak == <<"b", "n", "a", "k">>
Str_bus_space_stop == <<"b", "u", "s", " ", "s", "t", "o", "p">>
Str_blank == <<" ">>
Str_empty == <<>>

\* the characters str::trim removes that occur in the inputs
Whitespace == {" ", "\t"}

---------------------------------------------------------------------------
\* ServiceType (models.rs) and the Nearby arm's parsing of --type (main.rs)

ServiceType == {"BusStop", "Market", "School", "Mall", "Hospital", "Bank",
                "Restaurant", "FuelStation", "TrainStation", "TaxiStand",
                "Landmark"}

\* str::split(","): the pieces between the commas, in order; a string
\* without a comma (the empty one included) is one piece.
RECURSIVE SplitFrom(_, _, _)
SplitFrom(s, i, cur) ==
    IF i > Len(s) THEN <<cur>>
    ELSE IF s[i] = "," THEN <<cur>> \o SplitFrom(s, i + 1, <<>>)
    ELSE SplitFrom(s, i + 1, Append(cur, s[i]))

SplitComma(s) == SplitFrom(s, 1, <<>>)

RECURSIVE TrimStart(_)
TrimStart(s) ==
    IF s /= <<>> /\ Head(s) \in Whitespace THEN TrimStart(Tail(s)) ELSE s

RECURSIVE TrimEnd(_)
TrimEnd(s) ==
    IF s /= <<>> /\ s[Len(s)] \in Whitespace
    THEN TrimEnd(SubSeq(s, 1, Len(s) - 1))
    ELSE s

\* str::trim
Trim(s) == TrimEnd(TrimStart(s))

\* a match whose bus-stop and market arms are exchanged
MatchServiceType_swapped(t) ==
    CASE t = Str_bank -> "Bank"
      [] t = Str_hospital -> "Hospital"
      [] t = Str_school -> "School"
      [] t = Str_restaurant -> "Restaurant"
      [] t = Str_bus_stop -> "Market"
      [] t = Str_market -> "BusStop"
      [] t = Str_mall -> "Mall"
      [] t = Str_fuel_station -> "FuelStation"
      [] t = Str_train_station -> "TrainStation"
      [] t = Str_taxi_stand -> "TaxiStand"
      [] t = Str_landmark -> "Landmark"
      [] OTHER -> "Landmark"

\* the match on the trimmed token: eleven literal arms and the fallback
MatchServiceType(t) ==
    CASE t = Str_bank -> "Bank"
      [] t = Str_hospital -> "Hospital"
      [] t = Str_school -> "School"
      [] t = Str_restaurant -> "Restaurant"
      [] t = Str_bus_stop -> "BusStop"
      [] t = Str_market -> "Market"
      [] t = Str_mall -> "Mall"
      [] t = Str_fuel_station -> "FuelStation"
      [] t = Str_train_station -> "TrainStation"
      [] t = Str_taxi_stand -> "TaxiStand"
      [] t = Str_landmark -> "Landmark"
      [] OTHER -> "Landmark"

\* r#type.split(",").map(|s| match s.trim() {...}).collect()
ParseServiceTypes(type) ==
    LET pieces == SplitComma(type)
    IN  [i \in 1..Len(pieces) |-> MatchServiceType(Trim(pieces[i]))]

---------------------------------------------------------------------------
\* SearchQuery (models.rs) and the Nearby arm's location resolution (main.rs)

\* SearchQuery::from_address
from_address(address) == [tag |-> "Address", address |-> address]

\* a constructor that stores its two arguments the other way round
from_coordinates_swapped(latitude, longitude) ==
    [tag |-> "Coordinates", latitude |-> longitude, longitude |-> latitude]

\* SearchQuery::from_coordinates
from_coordinates(latitude, longitude) ==
    [tag |-> "Coordinates", latitude |-> latitude, longitude |-> longitude]

MsgLongitudeRequired == "Longitude is required when latitude is provided"
MsgLocationRequired == "Either address or coordinates must be provided"

\* a resolution that looks at the address before the latitude
ResolveQuery_addressFirst(address, latitude, longitude) ==
    IF IsSome(address)
    THEN [ok |-> TRUE, query |-> from_address(Unwrap(address))]
    ELSE IF IsSome(latitude)
         THEN IF IsSome(longitude)
              THEN [ok |-> TRUE,
                    query |-> from_coordinates(Unwrap(latitude), Unwrap(longitude))]
              ELSE [ok |-> FALSE, message |-> MsgLongitudeRequired]
         ELSE [ok |-> FALSE, message |-> MsgLocationRequired]

\* a resolution that takes a lone longitude with a latitude of 0
ResolveQuery_loneLongitude(address, latitude, longitude) ==
    IF IsSome(latitude)
    THEN IF IsSome(longitude)
         THEN [ok |-> TRUE,
               query |-> from_coordinates(Unwrap(latitude), Unwrap(longitude))]
         ELSE [ok |-> FALSE, message |-> MsgLongitudeRequired]
    ELSE IF IsSome(address)
         THEN [ok |-> TRUE, query |-> from_address(Unwrap(address))]
         ELSE IF IsSome(longitude)
              THEN [ok |-> TRUE, query |-> from_coordinates(0, Unwrap(longitude))]
              ELSE [ok |-> FALSE, message |-> MsgLocationRequired]

\* `let query = if let Some(latitude_val) = latitude {...} else {...}`: the
\* query, or the message of the branch that prints and exits.
ResolveQuery(address, latitude, longitude) ==
    IF IsSome(latitude)
    THEN IF IsSome(longitude)
         THEN [ok |-> TRUE,
               query |-> from_coordinates(Unwrap(latitude), Unwrap(longitude))]
         ELSE [ok |-> FALSE, message |-> MsgLongitudeRequired]
    ELSE IF IsSome(address)
         THEN [ok |-> TRUE, query |-> from_address(Unwrap(address))]
         ELSE [ok |-> FALSE, message |-> MsgLocationRequired]

---------------------------------------------------------------------------
\* The domain model of models.rs

GeoLoc1 ==
    [address |-> "221B Baker Street", latitude |-> 515, longitude |-> -1,
     city |-> Some("London"), state |-> None, country |-> "UK"]
GeoLoc2 ==
    [address |-> "10 Downing Street", latitude |-> 515, longitude |-> -1,
     city |-> None, state |-> None, country |-> "UK"]
GeoLocations == {GeoLoc1, GeoLoc2}

Svc1 ==
    [name |-> "Barclays", service_type |-> "Bank", latitude |-> 515,
     longitude |-> -1, distance_km |-> 1, address |-> None,
     rating |-> Some(4), place_id |-> None]
Svc2 ==
    [name |-> "St Mary's", service_type |-> "Hospital", latitude |-> 515,
     longitude |-> -2, distance_km |-> 2, address |-> Some("Praed Street"),
     rating |-> None, place_id |-> Some("p2")]
NearbyServices == {Svc1, Svc2}

\* every Vec<NearbyService> of at most MaxServices entries
ServiceVecs == UNION {[1..n -> NearbyServices] : n \in 0..MaxServices}

\* a constructor that counts one entry too few
LocationIntelligence_new_offByOne(location, nearby_services) ==
    [location |-> location,
     nearby_services |-> nearby_services,
     total_services_found |->
         IF Len(nearby_services) = 0 THEN 0 ELSE Len(nearby_services) - 1]

\* LocationIntelligence::new
LocationIntelligence_new(location, nearby_services) ==
    LET total == Len(nearby_services)
    IN  [location |-> location,
         nearby_services |-> nearby_services,
         total_services_found |-> total]

JsonRpcError_new(code, message, data) ==
    [code |-> code, message |-> message, data |-> data]

\* a constructor that keeps the error only when there is no result
JsonRpcResponse_new_exclusive(id, result, error) ==
    [jsonrpc |-> "2.0",
     result |-> result,
     error |-> IF IsSome(result) THEN None ELSE error,
     id |-> id]

\* JsonRpcResponse::new
JsonRpcResponse_new(id, result, error) ==
    [jsonrpc |-> "2.0", result |-> result, error |-> error, id |-> id]

---------------------------------------------------------------------------
\* The command line (main.rs: Cli, Commands)

DefaultRadius == 1000
DefaultMaxResults == 10
DefaultType == Str_bank

RECURSIVE JoinComma(_)
JoinComma(tokens) ==
    IF Len(tokens) = 1 THEN tokens[1]
    ELSE tokens[1] \o <<",">> \o JoinComma(Tail(tokens))

\* the tokens typed alone after --type
TypeTokens ==
    {Str_bank, Str_hospital, Str_school, Str_restaurant, Str_bus_stop,
     Str_market, Str_mall, Str_fuel_station, Str_train_station,
     Str_taxi_stand, Str_landmark, Str_Bank, Str_HOSPITAL, Str_padded_bank,
     Str_tab_mall, Str_bnak, Str_bus_space_stop, Str_blank, Str_empty}

\* the tokens typed in lists of two or more
ListTokens == {Str_bank, Str_hospital, Str_Bank, Str_padded_bank, Str_empty}

\* the --type strings of the model
TypeStrings ==
    TypeTokens \cup
    {JoinComma(ts) : ts \in UNION {[1..n -> ListTokens] : n \in 2..MaxTokens}}

Addresses == {"221B Baker Street", "10 Downing Street"}
Latitudes == {515}
Longitudes == {-1}
Radii == {250}
MaxResultsValues == {5}

Opt(S) == {None} \cup {Some(v) : v \in S}

GeocodeArgv == [cmd : {"geocode"}, address : Addresses]
ReverseArgv == [cmd : {"reverse"}, latitude : Latitudes, longitude : Longitudes]
NearbyArgv ==
    [cmd : {"nearby"},
     address : Opt({"221B Baker Street"}),
     latitude : Opt(Latitudes),
     longitude : Opt(Longitudes),
     radius : Opt(Radii),
     type : Opt(TypeStrings),
     max_results : Opt(MaxResultsValues)]

\* a flag's value, or its default_value when the flag is absent
OrDefault(flag, default) == IF IsSome(flag) THEN Unwrap(flag) ELSE default

\* a parser whose --type flag also resets the radius to its default
ParseCommand_typeResetsRadius(a) ==
    CASE a.cmd = "geocode" -> [tag |-> "Geocode", address |-> a.address]
      [] a.cmd = "reverse" ->
            [tag |-> "Reverse", latitude |-> a.latitude, longitude |-> a.longitude]
      [] a.cmd = "nearby" ->
            [tag |-> "Nearby",
             address |-> a.address,
             latitude |-> a.latitude,
             longitude |-> a.longitude,
             radius |-> IF IsSome(a.type) THEN DefaultRadius
                        ELSE OrDefault(a.radius, DefaultRadius),
             type |-> OrDefault(a.type, DefaultType),
             max_results |-> OrDefault(a.max_results, DefaultMaxResults)]

\* Cli::parse for a well-formed command line: the Commands value, with the
\* default_value of each omitted Nearby flag
ParseCommand(a) ==
    CASE a.cmd = "geocode" -> [tag |-> "Geocode", address |-> a.address]
      [] a.cmd = "reverse" ->
            [tag |-> "Reverse", latitude |-> a.latitude, longitude |-> a.longitude]
      [] a.cmd = "nearby" ->
            [tag |-> "Nearby",
             address |-> a.address,
             latitude |-> a.latitude,
             longitude |-> a.longitude,
             radius |-> OrDefault(a.radius, DefaultRadius),
             type |-> OrDefault(a.type, DefaultType),
             max_results |-> OrDefault(a.max_results, DefaultMaxResults)]

---------------------------------------------------------------------------
\* The API client (external): what a call may return

ApiErrors == {"request failed", "invalid api key"}

Ok(v) == [ok |-> TRUE, value |-> v]
Err(e) == [ok |-> FALSE, error |-> e]

ApiResults(call) ==
    {Err(e) : e \in ApiErrors} \cup
    CASE call.op = "geocode" -> {Ok(GeoLoc1)}
      [] call.op = "reverse_geocode" -> {Ok("221B Baker Street")}
      [] call.op = "fetch_intelligence" ->
            {Ok(LocationIntelligence_new(GeoLoc1, <<>>)),
             Ok(LocationIntelligence_new(GeoLoc1, <<Svc1>>))}

---------------------------------------------------------------------------
\* main (main.rs)

ErrorLine(text) == [label |-> "Error:", text |-> text]

\* the format each arm prints its Ok value in
OutputFormat(tag) ==
    CASE tag = "Geocode" -> "json_pretty"
      [] tag = "Reverse" -> "debug"
      [] tag = "Nearby" -> "json_pretty"

\* a result match that prints the label to stdout before failing
Report_labelOnStdout(tag, r) ==
    IF r.ok
    THEN [out |-> <<[format |-> OutputFormat(tag), value |-> r.value]>>,
          err |-> <<>>, code |-> 0]
    ELSE [out |-> <<[format |-> "text", value |-> "Error:"]>>,
          err |-> <<ErrorLine(r.error)>>, code |-> 1]

\* `match client.<call>.await { Ok(v) => println!(..), Err(e) => { eprintln!(..);
\* process::exit(1) } }` and the return from main: what is written and the status
Report(tag, r) ==
    IF r.ok
    THEN [out |-> <<[format |-> OutputFormat(tag), value |-> r.value]>>,
          err |-> <<>>, code |-> 0]
    ELSE [out |-> <<>>, err |-> <<ErrorLine(r.error)>>, code |-> 1]

CliInit ==
    /\ argv \in GeocodeArgv \cup ReverseArgv \cup NearbyArgv
    /\ command = None
    /\ pc = "parse"
    /\ service_types = <<>>
    /\ query = None
    /\ calls = <<>>
    /\ response = None
    /\ stdout = <<>>
    /\ stderr = <<>>
    /\ exit_code = None

\* let cli = Cli::parse();
Parse ==
    /\ pc = "parse"
    /\ command' = Some(ParseCommand(argv))
    /\ pc' = "dispatch"
    /\ UNCHANGED <<argv, service_types, query, calls, response, stdout,
                   stderr, exit_code>>

\* Commands::Geocode: client.geocode_async(&address), up to the .await
DispatchGeocode ==
    /\ pc = "dispatch"
    /\ Unwrap(command).tag = "Geocode"
    /\ calls' = Append(calls, [op |-> "geocode", address |-> Unwrap(command).address])
    /\ pc' = "await"
    /\ UNCHANGED <<argv, command, service_types, query, response, stdout,
                   stderr, exit_code>>

\* Commands::Reverse: client.reverse_geocode_async(latitude, longitude), up to the .await
DispatchReverse ==
    /\ pc = "dispatch"
    /\ Unwrap(command).tag = "Reverse"
    /\ calls' = Append(calls, [op |-> "reverse_geocode",
                               latitude |-> Unwrap(command).latitude,
                               longitude |-> Unwrap(command).longitude])
    /\ pc' = "await"
    /\ UNCHANGED <<argv, command, service_types, query, response, stdout,
                   stderr, exit_code>>

\* Commands::Nearby: collect the service types, resolve the query (or print
\* the message and exit 1), then client.fetch_intelligence_async(..), up to the .await
DispatchNearby ==
    /\ pc = "dispatch"
    /\ Unwrap(command).tag = "Nearby"
    /\ LET c == Unwrap(command)
           types == ParseServiceTypes(c.type)
           r == ResolveQuery(c.address, c.latitude, c.longitude)
       IN  /\ service_types' = types
           /\ IF r.ok
              THEN /\ query' = Some(r.query)
                   /\ calls' = Append(calls,
                                      [op |-> "fetch_intelligence",
                                       query |-> r.query,
                                       service_types |-> types,
                                       radius |-> c.radius,
                                       max_results |-> c.max_results])
                   /\ pc' = "await"
                   /\ UNCHANGED <<stderr, exit_code>>
              ELSE /\ stderr' = Append(stderr, ErrorLine(r.message))
                   /\ exit_code' = Some(1)
                   /\ pc' = "exited"
                   /\ UNCHANGED <<query, calls>>
    /\ UNCHANGED <<argv, command, response, stdout>>

\* the awaited client call completes with Ok or Err
ClientReturns ==
    /\ pc = "await"
    /\ \E r \in ApiResults(calls[Len(calls)]) : response' = Some(r)
    /\ pc' = "resume"
    /\ UNCHANGED <<argv, command, service_types, query, calls, stdout,
                   stderr, exit_code>>

\* a continuation that issues the call again after an Err
Resume_retryOnce ==
    /\ pc = "resume"
    /\ IF ~Unwrap(response).ok /\ Len(calls) < 2
       THEN /\ calls' = Append(calls, calls[Len(calls)])
            /\ pc' = "await"
            /\ UNCHANGED <<stdout, stderr, exit_code>>
       ELSE LET rep == Report(Unwrap(command).tag, Unwrap(response))
            IN  /\ stdout' = stdout \o rep.out
                /\ stderr' = stderr \o rep.err
                /\ exit_code' = Some(rep.code)
                /\ pc' = "exited"
                /\ UNCHANGED calls
    /\ UNCHANGED <<argv, command, service_types, query, response>>

\* main resumes after the .await: print the value and return, or print the
\* error and exit 1
Resume ==
    /\ pc = "resume"
    /\ LET rep == Report(Unwrap(command).tag, Unwrap(response))
       IN  /\ stdout' = stdout \o rep.out
           /\ stderr' = stderr \o rep.err
           /\ exit_code' = Some(rep.code)
           /\ pc' = "exited"
    /\ UNCHANGED <<argv, command, service_types, query, calls, response>>

IdleModels ==
    /\ intel_args = None
    /\ intel = None
    /\ rpc_args = None
    /\ rpc = None

Init == CliInit /\ IdleModels

Next ==
    \/ Parse /\ UNCHANGED <<intelVars, rpcVars>>
    \/ DispatchGeocode /\ UNCHANGED <<intelVars, rpcVars>>
    \/ DispatchReverse /\ UNCHANGED <<intelVars, rpcVars>>
    \/ DispatchNearby /\ UNCHANGED <<intelVars, rpcVars>>
    \/ ClientReturns /\ UNCHANGED <<intelVars, rpcVars>>
    \/ Resume /\ UNCHANGED <<intelVars, rpcVars>>

Spec == Init /\ [][Next]_vars

---------------------------------------------------------------------------
\* LocationIntelligence: construction and assignment to its public fields

\* a setter that also recounts total_services_found
Intel_set_nearby_services_recount(li, v) ==
    [li EXCEPT !.nearby_services = v, !.total_services_found = Len(v)]

\* #[pyo3(get, set)] pub nearby_services
Intel_set_nearby_services(li, v) == [li EXCEPT !.nearby_services = v]

\* #[pyo3(get, set)] pub total_services_found
Intel_set_total_services_found(li, n) == [li EXCEPT !.total_services_found = n]

\* #[pyo3(get, set)] pub location
Intel_set_location(li, loc) == [li EXCEPT !.location = loc]

CliIdle ==
    /\ argv = None
    /\ command = None
    /\ pc = "idle"
    /\ service_types = <<>>
    /\ query = None
    /\ calls = <<>>
    /\ response = None
    /\ stdout = <<>>
    /\ stderr = <<>>
    /\ exit_code = None

NewIntel ==
    /\ intel = None
    /\ \E loc \in GeoLocations, svcs \in ServiceVecs :
          /\ intel_args' = Some([location |-> loc, nearby_services |-> svcs])
          /\ intel' = Some(LocationIntelligence_new(loc, svcs))

\* #[derive(Deserialize)]: the three fields as the document gives them
DeserializeIntel ==
    /\ intel = None
    /\ \E loc \in GeoLocations, svcs \in ServiceVecs, n \in 0..(MaxServices + 1) :
          intel' = Some([location |-> loc,
                         nearby_services |-> svcs,
                         total_services_found |-> n])
    /\ UNCHANGED intel_args

AssignNearbyServices ==
    /\ intel /= None
    /\ \E v \in ServiceVecs :
          intel' = Some(Intel_set_nearby_services(Unwrap(intel), v))
    /\ UNCHANGED intel_args

AssignTotalServicesFound ==
    /\ intel /= None
    /\ \E n \in 0..(MaxServices + 1) :
          intel' = Some(Intel_set_total_services_found(Unwrap(intel), n))
    /\ UNCHANGED intel_args

AssignLocation ==
    /\ intel /= None
    /\ \E loc \in GeoLocations :
          intel' = Some(Intel_set_location(Unwrap(intel), loc))
    /\ UNCHANGED intel_args

IntelInit ==
    /\ CliIdle
    /\ intel_args = None
    /\ intel = None
    /\ rpc_args = None
    /\ rpc = None

IntelNext ==
    \/ NewIntel /\ UNCHANGED <<cliVars, rpcVars>>
    \/ DeserializeIntel /\ UNCHANGED <<cliVars, rpcVars>>
    \/ AssignNearbyServices /\ UNCHANGED <<cliVars, rpcVars>>
    \/ AssignTotalServicesFound /\ UNCHANGED <<cliVars, rpcVars>>
    \/ AssignLocation /\ UNCHANGED <<cliVars, rpcVars>>

IntelSpec == IntelInit /\ [][IntelNext]_vars

---------------------------------------------------------------------------
\* JsonRpcResponse: construction and assignment to its public fields

RpcErrors ==
    {JsonRpcError_new(-32600, "Invalid Request", None),
     JsonRpcError_new(-32000, "Server error", Some("detail"))}
RpcResults == {"ok", "pong"}
RpcIds == {"1", "2"}
RpcVersions == {"2.0", "1.0"}

\* #[pyo3(get, set)] pub result
Rpc_set_result(r, v) == [r EXCEPT !.result = v]

\* #[pyo3(get, set)] pub error
Rpc_set_error(r, v) == [r EXCEPT !.error = v]

\* #[pyo3(get, set)] pub id
Rpc_set_id(r, v) == [r EXCEPT !.id = v]

\* #[pyo3(get, set)] pub jsonrpc
Rpc_set_jsonrpc(r, v) == [r EXCEPT !.jsonrpc = v]

NewRpc ==
    /\ rpc = None
    /\ \E id \in RpcIds, result \in Opt(RpcResults), error \in Opt(RpcErrors) :
          /\ rpc_args' = Some([id |-> id, result |-> result, error |-> error])
          /\ rpc' = Some(JsonRpcResponse_new(id, result, error))

\* #[derive(Deserialize)]: the four fields as the document gives them
DeserializeRpc ==
    /\ rpc = None
    /\ \E v \in RpcVersions, id \in RpcIds,
          result \in Opt(RpcResults), error \in Opt(RpcErrors) :
          rpc' = Some([jsonrpc |-> v, result |-> result, error |-> error, id |-> id])
    /\ UNCHANGED rpc_args

AssignResult ==
    /\ rpc /= None
    /\ \E v \in Opt(RpcResults) : rpc' = Some(Rpc_set_result(Unwrap(rpc), v))
    /\ UNCHANGED rpc_args

AssignError ==
    /\ rpc /= None
    /\ \E v \in Opt(RpcErrors) : rpc' = Some(Rpc_set_error(Unwrap(rpc), v))
    /\ UNCHANGED rpc_args

AssignId ==
    /\ rpc /= None
    /\ \E v \in RpcIds : rpc' = Some(Rpc_set_id(Unwrap(rpc), v))
    /\ UNCHANGED rpc_args

AssignJsonrpc ==
    /\ rpc /= None
    /\ \E v \in RpcVersions : rpc' = Some(Rpc_set_jsonrpc(Unwrap(rpc), v))
    /\ UNCHANGED rpc_args

RpcInit ==
    /\ CliIdle
    /\ intel_args = None
    /\ intel = None
    /\ rpc_args = None
    /\ rpc = None

RpcNext ==
    \/ NewRpc /\ UNCHANGED <<cliVars, intelVars>>
    \/ DeserializeRpc /\ UNCHANGED <<cliVars, intelVars>>
    \/ AssignResult /\ UNCHANGED <<cliVars, intelVars>>
    \/ AssignError /\ UNCHANGED <<cliVars, intelVars>>
    \/ AssignId /\ UNCHANGED <<cliVars, intelVars>>
    \/ AssignJsonrpc /\ UNCHANGED <<cliVars, intelVars>>

RpcSpec == RpcInit /\ [][RpcNext]_vars

---------------------------------------------------------------------------
\* Properties of the nearby command

\* the Nearby arm has run past its parsing and resolution
NearbyRan ==
    /\ command /= None
    /\ Unwrap(command).tag = "Nearby"
    /\ pc \in {"await", "resume", "exited"}

\* The tokens of a comma-separated string, stated from the comma positions
CommaPositions(s) == {i \in 1..Len(s) : s[i] = ","}
TokenCount(s) == Cardinality(CommaPositions(s)) + 1
\* the position of the k-th comma of s; 0 for k = 0, Len(s) + 1 past the last
CommaAt(s, k) ==
    IF k = 0 THEN 0
    ELSE IF k > Cardinality(CommaPositions(s)) THEN Len(s) + 1
    ELSE CHOOSE p \in CommaPositions(s) :
            Cardinality({q \in CommaPositions(s) : q < p}) = k - 1
Token(s, k) == SubSeq(s, CommaAt(s, k - 1) + 1, CommaAt(s, k) - 1)

\* tok from its first to its last non-whitespace character; empty if it has none
Core(tok) ==
    LET solid == {i \in 1..Len(tok) : tok[i] \notin Whitespace}
    IN  IF solid = {} THEN <<>>
        ELSE SubSeq(tok,
                    CHOOSE i \in solid : \A j \in solid : i <= j,
                    CHOOSE i \in solid : \A j \in solid : j <= i)

\* the eleven tag names and their tags
NameTable ==
    {<<Str_bank, "Bank">>, <<Str_hospital, "Hospital">>,
     <<Str_school, "School">>, <<Str_restaurant, "Restaurant">>,
     <<Str_bus_stop, "BusStop">>, <<Str_market, "Market">>,
     <<Str_mall, "Mall">>, <<Str_fuel_station, "FuelStation">>,
     <<Str_train_station, "TrainStation">>, <<Str_taxi_stand, "TaxiStand">>,
     <<Str_landmark, "Landmark">>}

KnownNames == {p[1] : p \in NameTable}

ExpectedTag(tok) ==
    IF Core(tok) \in KnownNames
    THEN (CHOOSE p \in NameTable : p[1] = Core(tok))[2]
    ELSE "Landmark"

ExpectedTypes(s) == [k \in 1..TokenCount(s) |-> ExpectedTag(Token(s, k))]

\* C1: the service type list has one element per comma-separated token of
\* the --type string, in input order; the i-th element is the tag of the name
\* the i-th token trims to (matched exactly, case included), and Landmark for
\* every other token; tokens that trim to different names get different tags.
C1_TypeListMapping ==
    NearbyRan =>
        LET s == Unwrap(command).type
            core == [k \in 1..TokenCount(s) |-> Core(Token(s, k))]
        IN  /\ Len(service_types) = TokenCount(s)
            /\ \A k \in 1..TokenCount(s) :
                  service_types[k] = ExpectedTag(Token(s, k))
            /\ \A j, k \in 1..TokenCount(s) :
                  (core[j] \in KnownNames /\ core[k] \in KnownNames /\ core[j] /= core[k])
                  => service_types[j] /= service_types[k]
            /\ \A k \in 1..Len(service_types) : service_types[k] \in ServiceType

\* " bank ,Bank,hospital" has been parsed to [Bank, Landmark, Hospital]
C1_Witness ==
    /\ NearbyRan
    /\ Unwrap(command).type = JoinComma(<<Str_padded_bank, Str_Bank, Str_hospital>>)
    /\ service_types = <<"Bank", "Landmark", "Hospital">>

LatitudeWithoutLongitude ==
    /\ argv.cmd = "nearby"
    /\ IsSome(argv.latitude)
    /\ ~IsSome(argv.longitude)

\* C2: a nearby run given a latitude and no longitude never calls the client,
\* and once past resolution it has exited with status 1 having written only
\* "Error: Longitude is required when latitude is provided" to stderr,
\* whatever the address, type, radius and max-results.
C2_LongitudeRequired ==
    LatitudeWithoutLongitude =>
        /\ calls = <<>>
        /\ pc \notin {"await", "resume"}
        /\ pc \notin {"parse", "dispatch"} =>
              /\ pc = "exited"
              /\ exit_code = Some(1)
              /\ stderr = <<[label |-> "Error:",
                             text |-> "Longitude is required when latitude is provided"]>>
              /\ stdout = <<>>
              /\ query = None

\* the run with an address, a latitude and no longitude has exited
C2_Witness ==
    /\ LatitudeWithoutLongitude
    /\ IsSome(argv.address)
    /\ IsSome(argv.type) /\ IsSome(argv.radius) /\ IsSome(argv.max_results)
    /\ pc = "exited"
    /\ exit_code = Some(1)

NoAddressNoLatitude ==
    /\ argv.cmd = "nearby"
    /\ ~IsSome(argv.address)
    /\ ~IsSome(argv.latitude)

\* C3: a nearby run given neither an address nor a latitude never calls the
\* client, and once past resolution it has exited with status 1 having written
\* only "Error: Either address or coordinates must be provided" to stderr;
\* a longitude given alone does not change this.
C3_LocationRequired ==
    NoAddressNoLatitude =>
        /\ calls = <<>>
        /\ pc \notin {"await", "resume"}
        /\ pc \notin {"parse", "dispatch"} =>
              /\ pc = "exited"
              /\ exit_code = Some(1)
              /\ stderr = <<[label |-> "Error:",
                             text |-> "Either address or coordinates must be provided"]>>
              /\ stdout = <<>>
              /\ query = None

\* the run with only a longitude has exited
C3_Witness ==
    /\ NoAddressNoLatitude
    /\ IsSome(argv.longitude)
    /\ pc = "exited"
    /\ exit_code = Some(1)

\* the one call of a nearby run carries the resolved query
FetchedWith(q) ==
    /\ query = Some(q)
    /\ Len(calls) = 1
    /\ calls[1].op = "fetch_intelligence"
    /\ calls[1].query = q

\* C4: past resolution, a nearby run given latitude and longitude has called
\* fetch-intelligence with Coordinates of exactly those two values, address
\* or not; a run given an address and no latitude has called it with Address
\* of exactly that address, longitude or not; a resolved query is one of the
\* two variants.
C4_QueryPriority ==
    (argv.cmd = "nearby" /\ pc \notin {"parse", "dispatch"}) =>
        /\ (IsSome(argv.latitude) /\ IsSome(argv.longitude)) =>
              FetchedWith([tag |-> "Coordinates",
                           latitude |-> Unwrap(argv.latitude),
                           longitude |-> Unwrap(argv.longitude)])
        /\ (~IsSome(argv.latitude) /\ IsSome(argv.address)) =>
              FetchedWith([tag |-> "Address", address |-> Unwrap(argv.address)])
        /\ IsSome(query) =>
              \/ /\ Unwrap(query).tag = "Coordinates"
                 /\ DOMAIN Unwrap(query) = {"tag", "latitude", "longitude"}
              \/ /\ Unwrap(query).tag = "Address"
                 /\ DOMAIN Unwrap(query) = {"tag", "address"}

\* address, latitude and longitude all given: the call carries the coordinates
C4_Witness ==
    /\ argv.cmd = "nearby"
    /\ IsSome(argv.address) /\ IsSome(argv.latitude) /\ IsSome(argv.longitude)
    /\ FetchedWith([tag |-> "Coordinates", latitude |-> 515, longitude |-> -1])

\* C10: the fetch-intelligence call of a nearby run carries radius 1000 when
\* --radius is omitted, max_results 10 when --max-results is omitted and the
\* list [Bank] when --type is omitted; a flag that is given carries its own
\* value and leaves the other two as they would be without it.
C10_Defaults ==
    (argv.cmd = "nearby" /\ calls /= <<>>) =>
        /\ calls[1].op = "fetch_intelligence"
        /\ calls[1].radius =
              (IF IsSome(argv.radius) THEN Unwrap(argv.radius) ELSE 1000)
        /\ calls[1].max_results =
              (IF IsSome(argv.max_results) THEN Unwrap(argv.max_results) ELSE 10)
        /\ calls[1].service_types =
              (IF IsSome(argv.type) THEN ExpectedTypes(Unwrap(argv.type))
               ELSE <<"Bank">>)

\* the three flags omitted, a valid location: called with 1000, 10, [Bank]
C10_Witness ==
    /\ argv.cmd = "nearby"
    /\ ~IsSome(argv.radius) /\ ~IsSome(argv.type) /\ ~IsSome(argv.max_results)
    /\ Len(calls) = 1
    /\ calls[1].radius = 1000
    /\ calls[1].max_results = 10
    /\ calls[1].service_types = <<"Bank">>

---------------------------------------------------------------------------
\* Properties of the dispatcher as a whole

\* the run's operation succeeded: its client call returned Ok
Succeeded == IsSome(response) /\ Unwrap(response).ok

\* C8: a run that has exited has status 0 or 1, and 0 exactly when its
\* operation succeeded; stdout is written only by a run that exits 0, and a
\* run that exits 1 has written nothing to stdout and one "Error:" line to
\* stderr.
C8_ExitStatus ==
    /\ (stdout /= <<>>) => (pc = "exited" /\ exit_code = Some(0))
    /\ (pc = "exited") <=> IsSome(exit_code)
    /\ pc = "exited" =>
          /\ exit_code \in {Some(0), Some(1)}
          /\ (exit_code = Some(0)) <=> Succeeded
          /\ exit_code = Some(0) => (Len(stdout) = 1 /\ stderr = <<>>)
          /\ exit_code = Some(1) =>
                /\ stdout = <<>>
                /\ Len(stderr) = 1
                /\ stderr[1].label = "Error:"

\* a run whose client call returned Err has exited with status 1
C8_Witness ==
    /\ pc = "exited"
    /\ IsSome(response)
    /\ ~Unwrap(response).ok
    /\ exit_code = Some(1)
    /\ stderr = <<[label |-> "Error:", text |-> Unwrap(response).error]>>

\* the nearby run's location is rejected before any call
ValidationFails ==
    /\ argv.cmd = "nearby"
    /\ \/ (IsSome(argv.latitude) /\ ~IsSome(argv.longitude))
       \/ (~IsSome(argv.latitude) /\ ~IsSome(argv.address))

OpOf(cmd) ==
    CASE cmd = "geocode" -> "geocode"
      [] cmd = "reverse" -> "reverse_geocode"
      [] cmd = "nearby" -> "fetch_intelligence"

\* C9 as stated: every run that has exited made exactly one client call
C9_ExactlyOneCall == pc = "exited" => Len(calls) = 1

\* C9 amended: a run makes at most one client call, the one of its
\* subcommand; nothing is written and the process has not exited while the
\* call is pending; a run that has exited made exactly one call unless its
\* nearby location failed validation, and then it made none.
C9_AtMostOneCall ==
    /\ Len(calls) <= 1
    /\ \A i \in 1..Len(calls) : calls[i].op = OpOf(argv.cmd)
    /\ pc = "await" =>
          (Len(calls) = 1 /\ stdout = <<>> /\ stderr = <<>> /\ exit_code = None)
    /\ pc = "exited" =>
          /\ ValidationFails => calls = <<>>
          /\ ~ValidationFails => (Len(calls) = 1 /\ IsSome(response))

\* a run whose single call returned Err has exited without a second call
C9_Witness ==
    /\ pc = "exited"
    /\ Len(calls) = 1
    /\ IsSome(response)
    /\ ~Unwrap(response).ok

---------------------------------------------------------------------------
\* Properties of LocationIntelligence

CountMatches(li) == li.total_services_found = Len(li.nearby_services)

\* the step in which LocationIntelligence::new returns
IntelConstructed == intel = None /\ intel' /= None /\ intel_args' /= None

\* C5: the value LocationIntelligence::new returns has total_services_found
\* equal to the length of the nearby_services argument, nearby_services equal
\* to that argument and location equal to the location argument.
C5_NewCountsServices ==
    [][IntelConstructed =>
          LET a == Unwrap(intel_args')
              li == Unwrap(intel')
          IN  /\ li.total_services_found = Len(a.nearby_services)
              /\ li.nearby_services = a.nearby_services
              /\ li.location = a.location
              /\ DOMAIN li = {"location", "nearby_services", "total_services_found"}]_vars

\* new was given two services and returned them with a count of 2
C5_Witness ==
    /\ IsSome(intel)
    /\ IsSome(intel_args)
    /\ Unwrap(intel_args).nearby_services = <<Svc2, Svc1>>
    /\ Unwrap(intel).nearby_services = <<Svc2, Svc1>>
    /\ Unwrap(intel).total_services_found = 2
    /\ Unwrap(intel).location = Unwrap(intel_args).location

\* C6 as stated: total_services_found equals the length of nearby_services
\* in every state of every LocationIntelligence value
C6_CountAlwaysMatches == IsSome(intel) => CountMatches(Unwrap(intel))

\* C6 amended: the count equals the length in the value new returns, and
\* nothing recomputes it afterwards: a step that changes nearby_services
\* leaves total_services_found as it was, and a step that changes
\* total_services_found leaves nearby_services as it was.
C6_CountSetOnlyByNew ==
    [][/\ IntelConstructed => CountMatches(Unwrap(intel'))
       /\ (IsSome(intel) /\ IsSome(intel')) =>
             /\ Unwrap(intel').nearby_services /= Unwrap(intel).nearby_services
                   => Unwrap(intel').total_services_found
                         = Unwrap(intel).total_services_found
             /\ Unwrap(intel').total_services_found
                      /= Unwrap(intel).total_services_found
                   => Unwrap(intel').nearby_services = Unwrap(intel).nearby_services]_vars

\* a value built from two services whose nearby_services was then emptied:
\* the count still says 2
C6_Witness ==
    /\ IsSome(intel)
    /\ IsSome(intel_args)
    /\ Len(Unwrap(intel_args).nearby_services) = 2
    /\ Unwrap(intel).nearby_services = <<>>
    /\ Unwrap(intel).total_services_found = 2

---------------------------------------------------------------------------
\* Properties of JsonRpcResponse

ExactlyOne(result, error) == IsSome(result) /= IsSome(error)

\* the step in which JsonRpcResponse::new returns
RpcConstructed == rpc = None /\ rpc' /= None /\ rpc_args' /= None

\* C7 as stated: every JsonRpcResponse has exactly one of result and error
C7_ExactlyOneOfResultError ==
    IsSome(rpc) => ExactlyOne(Unwrap(rpc).result, Unwrap(rpc).error)

\* C7 amended: JsonRpcResponse::new returns jsonrpc "2.0", the id, and result
\* and error exactly as given, so the value has exactly one of them only when
\* exactly one was given; a later assignment to result leaves error as it
\* was, and an assignment to error leaves result as it was.
C7_NewStoresAsGiven ==
    [][/\ RpcConstructed =>
             LET a == Unwrap(rpc_args')
                 r == Unwrap(rpc')
             IN  /\ r.jsonrpc = "2.0"
                 /\ r.id = a.id
                 /\ r.result = a.result
                 /\ r.error = a.error
                 /\ ExactlyOne(r.result, r.error) <=> ExactlyOne(a.result, a.error)
       /\ (IsSome(rpc) /\ IsSome(rpc')) =>
             /\ Unwrap(rpc').result /= Unwrap(rpc).result
                   => Unwrap(rpc').error = Unwrap(rpc).error
             /\ Unwrap(rpc').error /= Unwrap(rpc).error
                   => Unwrap(rpc').result = Unwrap(rpc).result]_vars

\* new was given a result and an error and returned both
C7_Witness ==
    /\ IsSome(rpc)
    /\ IsSome(rpc_args)
    /\ IsSome(Unwrap(rpc_args).result)
    /\ IsSome(Unwrap(rpc_args).error)
    /\ Unwrap(rpc).result = Unwrap(rpc_args).result
    /\ Unwrap(rpc).error = Unwrap(rpc_args).error

===========================================================================
